---- MODULE Spec2Model ----
(***************************************************************************)
(* AgentForge-OS: the retry / parallel task-execution orchestrator         *)
(* (app/orchestration/advanced_crew.py) with the thread pool it submits    *)
(* to, the agent factory it creates agents with, and the /ask_agent        *)
(* endpoint with its safety filter.                                        *)
(*                                                                         *)
(* The orchestrator's synchronous methods are called by one thread, one    *)
(* call at a time; the pool's workers and the asynchronous workflow calls  *)
(* run beside it.                                                          *)
(***************************************************************************)
EXTENDS Integers, Sequences, FiniteSets, TLC

VARIABLES
    \* ---- AdvancedCrewOrchestrator fields (advanced_crew.py:19-23)
    fields,         \* llm_manager, memory_manager, agent_factory, executor, crew
    \* ---- the thread calling the orchestrator's synchronous methods
    pc,             \* "idle" | "retry" | "submit" | "collect" | "done"
    op,             \* the method called last, "none" before the first call
    args,           \* its arguments
    ret,            \* the value it returned, NoRet while it runs
    raised,         \* the exception it raised to the caller, None if none
    calls,          \* number of calls made so far
    \* ---- locals of execute_with_retry (advanced_crew.py:192-229)
    attempt,        \* the loop variable of `for attempt in range(max_retries)`
    last_error,     \* last_error
    rtrace,         \* what the call did so far: act / outcome / sleep events
    \* ---- locals of execute_parallel_tasks (advanced_crew.py:94-145)
    futures,        \* the list of (agent_type, task_description, future)
    task_results,   \* the list of entries
    \* ---- self.executor, a ThreadPoolExecutor (advanced_crew.py:22)
    futs,           \* the futures the running call holds, by id
    work_queue,     \* the submitted callables no worker has taken yet, FIFO
    orphans,        \* number of running agent.act callables whose future
                    \* no caller holds any more
    kickoffs,       \* number of running crew.kickoff callables
    \* ---- execute_workflow_async (advanced_crew.py:65-92)
    wcalls,         \* number of calls made so far
    wret,           \* the value the last finished call returned
    \* ---- the API process (api.py)
    components,     \* the global components that are not None
    startup,        \* how startup_event ended: "none" | "completed" | "raised"
    health,         \* the last response of GET /health
    doc_requests,   \* number of /query_documents requests answered so far
    doc_request,    \* the last one: files, query, installed libraries
    doc_response,   \* what the handler returned, or the exception it raised
    doc_events,     \* what the handler did: files read, extractions, LLM calls
    \* ---- MLflowManager (mlops/mlflow_manager.py) and the mlflow library
    ml_active,      \* mlflow's stack of active runs (ids)
    ml_runs,        \* the runs in the tracking store: name and status
    ml_calls,       \* number of log_* calls made so far
    ml_call,        \* the last one: method and arguments
    ml_result,      \* how it ended: returned, or the exception it raised
    ml_events,      \* the mlflow calls it made
    \* ---- SafetyFilter (utils/safety.py)
    safety_calls,   \* number of calls of the filter's methods so far
    safety_call,    \* the last one: method and arguments
    safety_out,  \* what it returned, or the exception it raised
    requests,       \* number of /ask_agent requests answered so far
    request,        \* the last request: agent_type and query
    response,       \* the HTTP response to it
    api_events      \* what the handler called while answering it

callVars == <<pc, op, args, ret, raised, calls>>

retryVars == <<attempt, last_error, rtrace>>

parVars == <<futures, task_results>>

poolVars == <<futs, work_queue, orphans, kickoffs>>

wfVars == <<wcalls, wret>>

startVars == <<components, startup>>

askVars == <<requests, request, response, api_events>>

docVars == <<doc_requests, doc_request, doc_response, doc_events>>

mlVars == <<ml_active, ml_runs, ml_calls, ml_call, ml_result, ml_events>>

safetyVars == <<safety_calls, safety_call, safety_out>>

apiVars == <<startVars, askVars, health, docVars, mlVars, safetyVars>>

orchVars == <<fields, callVars, retryVars, parVars, poolVars, wfVars>>

vars == <<orchVars, apiVars>>

-----------------------------------------------------------------------------
(* Bounds of the model *)

\* largest max_retries given to execute_with_retry
MaxRetries == 3

\* longest task list given to execute_parallel_tasks
MaxTasks == 2

\* calls of the synchronous methods in one run
MaxCalls == 2

\* calls of execute_workflow_async in one run
MaxWorkflows == 1

\* calls of execute_parallel_tasks in one run of the loaded pool
PoolCalls == 6

\* /ask_agent requests in one run
MaxRequests == 1

\* files uploaded with one /query_documents request
MaxFiles == 2

\* /query_documents requests in one run
MaxDocRequests == 1

\* entries of a metrics, parameters or training_config dict
MaxEntries == 2

\* calls of MLflowManager's log_* methods in one run
MaxLogCalls == 2

\* calls of SafetyFilter's methods in one run
MaxSafetyCalls == 2

-----------------------------------------------------------------------------
(* Exceptions *)

\* an exception: its class and str(e)
Exc(cls, msg) ==
    [cls |-> cls, msg |-> msg]

None ==
    [cls |-> "NoneType", msg |-> "None"]

Str(e) ==
    e.msg

\* isinstance(e, cls): every exception class raised here derives from
\* Exception, fastapi's HTTPException included
IsInstance(e, cls) ==
    \/ e.cls = cls
    \/ cls = "Exception" /\ e.cls \in {"ValueError", "RuntimeError", "KeyError",
                                         "TimeoutError", "AttributeError",
                                         "HTTPException"}

-----------------------------------------------------------------------------
(* AgentFactory (agents/agent_factory.py) and the agents *)

AgentRegistry ==
    {"dev", "research", "vision", "data", "product", "design"}

\* agent_type values a caller passes: two registered ones and an unknown one
AgentTypes ==
    {"dev", "research", "bogus"}

Tasks ==
    {"t1", "t2"}

AgentName(agent_type) ==
    CASE agent_type = "dev" -> "Development Agent"
      [] agent_type = "research" -> "Research Agent"
      [] agent_type = "vision" -> "Vision Agent"
      [] agent_type = "data" -> "Data Agent"
      [] agent_type = "product" -> "Product Agent"
      [] agent_type = "design" -> "Design Agent"
      [] OTHER -> "Base Agent"

\* create_agent raises ValueError for a type that is not in the registry
CreateAgentRaises(agent_type) ==
    agent_type \notin AgentRegistry

CreateAgentError(agent_type) ==
    Exc("ValueError", "Unknown agent type: " \o agent_type)

\* What one call of BaseAgent.act can do.  The six registered agents return
\* status "completed" with the text LLMManager.generate gave them ("generated"),
\* which is an "Error: ..." text when the model API raised ("llm_error");
\* act is abstract, so an agent may also raise or return another status.
ActBehaviours ==
    {"generated", "llm_error", "raises", "other_status"}

ActRaises(b) ==
    b = "raises"

ActError ==
    Exc("RuntimeError", "act failed")

\* LLMManager.generate: the text, or "Error: ..." when the API call raised
Generate(b) ==
    IF b = "llm_error" THEN "Error: api" ELSE "text"

\* the dict act returns
ActResult(agent_type, task, b) ==
    [agent |-> AgentName(agent_type),
     task |-> task,
     response |-> Generate(b),
     status |-> IF b = "other_status" THEN "partial" ELSE "completed"]

-----------------------------------------------------------------------------
(* AdvancedCrewOrchestrator.__init__ and the calling thread *)

InitFields ==
    [llm_manager |-> "llm", memory_manager |-> "None",
     agent_factory |-> "factory", executor |-> "pool", crew |-> "None"]

NoRet ==
    [status |-> "none"]

NoArgs ==
    [none |-> TRUE]

Init ==
    /\ fields = InitFields
    /\ pc = "idle"
    /\ op = "none"
    /\ args = NoArgs
    /\ ret = NoRet
    /\ raised = None
    /\ calls = 0
    /\ attempt = 0
    /\ last_error = None
    /\ rtrace = <<>>
    /\ futures = <<>>
    /\ task_results = <<>>
    /\ futs = <<>>
    /\ work_queue = <<>>
    /\ orphans = 0
    /\ kickoffs = 0
    /\ wcalls = 0
    /\ wret = NoRet
    /\ components = {}
    /\ startup = "none"
    /\ health = NoRet
    /\ doc_requests = 0
    /\ doc_request = NoArgs
    /\ doc_response = NoRet
    /\ doc_events = <<>>
    /\ ml_active = <<>>
    /\ ml_runs = <<>>
    /\ ml_calls = 0
    /\ ml_call = NoArgs
    /\ ml_result = NoRet
    /\ ml_events = <<>>
    /\ safety_calls = 0
    /\ safety_call = NoArgs
    /\ safety_out = NoRet
    /\ requests = 0
    /\ request = NoArgs
    /\ response = NoRet
    /\ api_events = <<>>

\* the thread is not inside a call
Idle ==
    pc \in {"idle", "done"}

\* entering method m with arguments a; the locals of the call before are gone
Enter(m, a) ==
    /\ Idle
    /\ op' = m
    /\ args' = a
    /\ raised' = None
    /\ calls' = calls + 1
    /\ attempt' = 0
    /\ last_error' = None
    /\ rtrace' = <<>>
    /\ futures' = <<>>
    /\ task_results' = <<>>

-----------------------------------------------------------------------------
(* execute_with_retry *)

RetryArgs ==
    [agent_type : AgentTypes, task : Tasks, max_retries : 0..MaxRetries]

Event(ev, n) ==
    [ev |-> ev, n |-> n]

LoopContinuesInclusive(a, max_retries) ==
    a <= max_retries

\* `for attempt in range(max_retries)`
LoopContinues(a, max_retries) ==
    a < max_retries

\* `if attempt < max_retries - 1`
WaitsBeforeRetry(a, max_retries) ==
    a < max_retries - 1

\* `wait_time = 2 ** attempt`
WaitTime(a) ==
    2 ^ a

\* the value returned from inside the loop
RetrySuccessZeroBased(result, a) ==
    result @@ [attempts |-> a, retry_used |-> a > 0]

RetrySuccess(result, a) ==
    result @@ [attempts |-> a + 1, retry_used |-> a > 0]

\* the value returned after the loop
RetryFailure(a, err) ==
    [agent |-> a.agent_type,
     task |-> a.task,
     response |-> "Failed after " \o ToString(a.max_retries)
                  \o " attempts: " \o Str(err),
     status |-> "failed",
     error |-> Str(err),
     attempts |-> a.max_retries]

RetryCall(a) ==
    /\ Enter("execute_with_retry", a)
    /\ pc' = "retry"
    /\ ret' = NoRet
    /\ UNCHANGED <<fields, poolVars, wfVars>>
    /\ UNCHANGED apiVars

\* `except Exception as e` of one iteration, reached with exception e after
\* the events evs of the try block; an exception it does not catch leaves
\* the call
RetryExcept(e, evs) ==
    IF ~IsInstance(e, "Exception")
    THEN /\ raised' = e
         /\ pc' = "done"
         /\ rtrace' = rtrace \o evs
         /\ UNCHANGED <<attempt, last_error, ret>>
    ELSE /\ last_error' = e
         /\ rtrace' = rtrace \o evs \o
                      (IF WaitsBeforeRetry(attempt, args.max_retries)
                       THEN <<Event("sleep", WaitTime(attempt))>>
                       ELSE <<>>)
         /\ attempt' = attempt + 1
         /\ UNCHANGED <<pc, ret, raised>>

\* one iteration of the loop
RetryAttempt ==
    /\ pc = "retry"
    /\ LoopContinues(attempt, args.max_retries)
    /\ IF CreateAgentRaises(args.agent_type)
       THEN RetryExcept(CreateAgentError(args.agent_type),
                        <<Event("create_agent", attempt + 1),
                          Event("raises", attempt + 1)>>)
       ELSE \E b \in ActBehaviours :
              LET evs == <<Event("act", attempt + 1), Event(b, attempt + 1)>>
                  result == ActResult(args.agent_type, args.task, b)
              IN  IF ActRaises(b)
                  THEN RetryExcept(ActError, evs)
                  ELSE IF result.status = "completed"
                  THEN /\ ret' = RetrySuccess(result, attempt)
                       /\ pc' = "done"
                       /\ rtrace' = rtrace \o evs
                       /\ UNCHANGED <<attempt, last_error, raised>>
                  ELSE /\ attempt' = attempt + 1
                       /\ rtrace' = rtrace \o evs
                       /\ UNCHANGED <<pc, ret, last_error, raised>>
    /\ UNCHANGED <<op, args, calls, fields, parVars, poolVars, wfVars>>
    /\ UNCHANGED apiVars

\* the loop is over without a completed result
RetryExhausted ==
    /\ pc = "retry"
    /\ ~LoopContinues(attempt, args.max_retries)
    /\ ret' = RetryFailure(args, last_error)
    /\ pc' = "done"
    /\ UNCHANGED <<op, args, raised, calls, retryVars>>
    /\ UNCHANGED <<fields, parVars, poolVars, wfVars>>
    /\ UNCHANGED apiVars

RetryStart ==
    /\ calls < MaxCalls
    /\ \E a \in RetryArgs : RetryCall(a)

NextRetry ==
    \/ RetryStart
    \/ RetryAttempt
    \/ RetryExhausted

\* the thread running the call keeps running: every act call returns or
\* raises and every sleep ends
SpecRetry ==
    Init /\ [][NextRetry]_vars /\ WF_vars(RetryAttempt \/ RetryExhausted)

-----------------------------------------------------------------------------
(* Claims about execute_with_retry *)

InRetry ==
    op = "execute_with_retry"

EventsOf(kinds) ==
    {i \in DOMAIN rtrace : rtrace[i].ev \in kinds}

ActCalls ==
    Cardinality(EventsOf({"act"}))

\* the attempts whose act returned status 'completed'
CompletedAttempts ==
    EventsOf({"generated", "llm_error"})

RetryBounded ==
    InRetry =>
        /\ ActCalls <= args.max_retries
        /\ attempt <= args.max_retries
        /\ raised = None
        /\ \A i \in CompletedAttempts : i = Len(rtrace) /\ pc = "done"
        /\ pc = "done" => ret # NoRet

\* C1: execute_with_retry calls agent.act at most max_retries times, stops at
\* the first attempt whose result has status 'completed' (that result is the
\* last thing the call does), raises nothing to its caller, and every call
\* that was started returns.
C1_RetryBoundedAndReturns ==
    /\ []RetryBounded
    /\ (pc = "retry") ~> (pc = "done")

\* a call that used all its attempts, none completed, and returned
C1_Witness ==
    /\ InRetry
    /\ pc = "done"
    /\ args.max_retries = MaxRetries
    /\ ActCalls = args.max_retries
    /\ ret.status = "failed"
    /\ last_error # None

Attempts ==
    EventsOf({"act", "create_agent"})

\* C2: every attempt n >= 2 is directly preceded by a sleep of 2^(n-2)
\* seconds, whatever way attempt n-1 failed, and no sleep follows the last
\* attempt.
C2_BackoffBeforeEveryRetry ==
    InRetry =>
        /\ \A i \in Attempts :
              rtrace[i].n >= 2 =>
                 /\ i > 1
                 /\ rtrace[i - 1] = Event("sleep", 2 ^ (rtrace[i].n - 2))
        /\ (pc = "done" /\ rtrace # <<>>) => rtrace[Len(rtrace)].ev # "sleep"

-----------------------------------------------------------------------------
(* self.executor = ThreadPoolExecutor(max_workers=10) *)

max_workers == 10

\* the longest input validate_input accepts (utils/safety.py:84)
max_input_length == 10000

NoOutcome ==
    [kind |-> "none"]

Returned(v) ==
    [kind |-> "result", value |-> v]

Raised(e) ==
    [kind |-> "exception", exc |-> e]

\* a future as submit creates it, for the callable agent.act(task, context)
NewFuture(agent_type, task) ==
    [state |-> "PENDING",
     fn |-> [agent_type |-> agent_type, task |-> task],
     outcome |-> NoOutcome]

ActItem(fid) ==
    [kind |-> "act", fid |-> fid]

\* an agent.act callable whose future no caller holds: the list of futures
\* is a local of execute_parallel_tasks, gone when the call returns
OrphanItem ==
    [kind |-> "orphan", fid |-> 0]

KickoffItem ==
    [kind |-> "kickoff", fid |-> 0]

Running ==
    {fid \in DOMAIN futs : futs[fid].state = "RUNNING"}

\* callables a worker thread is running
Busy ==
    Cardinality(Running) + orphans + kickoffs

Done(fid) ==
    futs[fid].state = "FINISHED"

\* the queue once the running call has returned: its callables stay where
\* they are, their futures held by nobody
Abandon(q) ==
    [i \in DOMAIN q |-> IF q[i].kind = "act" THEN OrphanItem ELSE q[i]]

WorkerFreeInclusive ==
    Busy <= max_workers

WorkerFree ==
    Busy < max_workers

\* a free worker takes the oldest queued callable and runs it
WorkerStart ==
    /\ work_queue # <<>>
    /\ WorkerFree
    /\ LET item == Head(work_queue)
       IN  CASE item.kind = "act" ->
                  /\ futs' = [futs EXCEPT ![item.fid].state = "RUNNING"]
                  /\ UNCHANGED <<orphans, kickoffs>>
             [] item.kind = "orphan" ->
                  /\ orphans' = orphans + 1
                  /\ UNCHANGED <<futs, kickoffs>>
             [] item.kind = "kickoff" ->
                  /\ kickoffs' = kickoffs + 1
                  /\ UNCHANGED <<futs, orphans>>
    /\ work_queue' = Tail(work_queue)
    /\ UNCHANGED <<fields, callVars, retryVars, parVars, wfVars>>
    /\ UNCHANGED apiVars

\* a running agent.act returns or raises; the worker sets the future's
\* result or exception and is free again
ActFinish(fid, b) ==
    /\ fid \in Running
    /\ futs' = [futs EXCEPT
                  ![fid].state = "FINISHED",
                  ![fid].outcome =
                      IF ActRaises(b)
                      THEN Raised(ActError)
                      ELSE Returned(ActResult(futs[fid].fn.agent_type,
                                              futs[fid].fn.task, b))]
    /\ UNCHANGED <<work_queue, orphans, kickoffs>>
    /\ UNCHANGED <<fields, callVars, retryVars, parVars, wfVars>>
    /\ UNCHANGED apiVars

\* the same for a callable whose future nobody holds: the result goes nowhere
OrphanFinish ==
    /\ orphans > 0
    /\ orphans' = orphans - 1
    /\ UNCHANGED <<futs, work_queue, kickoffs>>
    /\ UNCHANGED <<fields, callVars, retryVars, parVars, wfVars>>
    /\ UNCHANGED apiVars

-----------------------------------------------------------------------------
(* execute_parallel_tasks *)

TaskConfig(agent_type, task) ==
    [agent_type |-> agent_type, task |-> task]

TaskConfigs ==
    {TaskConfig("dev", "t1"), TaskConfig("research", "t2"),
     TaskConfig("bogus", "t1")}

SeqsUpTo(S, n) ==
    UNION {[1..k -> S] : k \in 0..n}

TaskLists ==
    SeqsUpTo(TaskConfigs, MaxTasks)

CompletedEntry(agent_type, task, result) ==
    [agent_type |-> agent_type, task |-> task, result |-> result,
     status |-> "completed"]

FailedEntry(agent_type, task, e) ==
    [agent_type |-> agent_type, task |-> task, result |-> None,
     status |-> "failed", error |-> Str(e)]

CountStatus(results, st) ==
    Cardinality({i \in DOMAIN results : results[i].status = st})

ParallelCompletedMiscount(results) ==
    [parallel_results |-> results,
     successful_tasks |-> CountStatus(results, "completed"),
     failed_tasks |-> Len(results),
     status |-> "completed"]

\* the value returned at the end of the try block
ParallelCompleted(results) ==
    [parallel_results |-> results,
     successful_tasks |-> CountStatus(results, "completed"),
     failed_tasks |-> CountStatus(results, "failed"),
     status |-> "completed"]

\* the value returned by the outer `except Exception as e`
ParallelFailed(e) ==
    [parallel_results |-> <<>>,
     successful_tasks |-> 0,
     failed_tasks |-> 0,
     status |-> "failed",
     error |-> Str(e)]

\* future.result(timeout=300) on a future that is not done raises
\* concurrent.futures.TimeoutError, whose str() is empty
ResultTimeout ==
    Exc("TimeoutError", "")

ParCallStoresCrew(ts) ==
    /\ Enter("execute_parallel_tasks", [tasks |-> ts])
    /\ pc' = IF ts = <<>> THEN "collect" ELSE "submit"
    /\ ret' = NoRet
    /\ fields' = [fields EXCEPT !.crew = "tasks"]
    /\ UNCHANGED <<poolVars, wfVars>>
    /\ UNCHANGED apiVars

ParCall(ts) ==
    /\ Enter("execute_parallel_tasks", [tasks |-> ts])
    /\ pc' = IF ts = <<>> THEN "collect" ELSE "submit"
    /\ ret' = NoRet
    /\ UNCHANGED <<fields, poolVars, wfVars>>
    /\ UNCHANGED apiVars

SubmitIteration ==
    /\ pc = "submit"
    /\ LET task_config == args.tasks[Len(futures) + 1]
           agent_type == task_config.agent_type
           task_description == task_config.task
           fid == Len(futs) + 1
       IN  IF CreateAgentRaises(agent_type)
           THEN /\ ret' = ParallelFailed(CreateAgentError(agent_type))
                /\ pc' = "done"
                /\ futures' = <<>>
                /\ futs' = <<>>
                /\ work_queue' = Abandon(work_queue)
                /\ orphans' = orphans + Cardinality(Running)
           ELSE /\ futs' = Append(futs, NewFuture(agent_type, task_description))
                /\ work_queue' = Append(work_queue, ActItem(fid))
                /\ UNCHANGED orphans
                /\ futures' = Append(futures,
                                     [agent_type |-> agent_type,
                                      task |-> task_description,
                                      future |-> fid])
                /\ pc' = IF Len(futures') = Len(args.tasks)
                         THEN "collect" ELSE "submit"
                /\ UNCHANGED ret
    /\ UNCHANGED <<op, args, raised, calls, task_results, kickoffs>>
    /\ UNCHANGED <<fields, retryVars, wfVars>>
    /\ UNCHANGED apiVars

ParSubmitAfterPrevious ==
    /\ futures # <<>> => Done(futures[Len(futures)].future)
    /\ SubmitIteration

\* one iteration of `for task_config in tasks`: create the agent, submit
\* agent.act to the pool; an exception here reaches the outer except
ParSubmit ==
    SubmitIteration

AwaitedNewestFirst ==
    futures[Len(futures) - Len(task_results)]

\* the entry the collecting loop is at
Awaited ==
    futures[Len(task_results) + 1]

Collecting ==
    pc = "collect" /\ Len(task_results) < Len(futures)

\* one iteration of `for agent_type, task_description, future in futures`
\* on a future that is done: its result, or the exception act raised
ParCollect ==
    /\ Collecting
    /\ Done(Awaited.future)
    /\ LET o == futs[Awaited.future].outcome
       IN  task_results' = Append(task_results,
              IF o.kind = "result"
              THEN CompletedEntry(Awaited.agent_type, Awaited.task, o.value)
              ELSE FailedEntry(Awaited.agent_type, Awaited.task, o.exc))
    /\ UNCHANGED <<callVars, futures, fields, retryVars, poolVars, wfVars>>
    /\ UNCHANGED apiVars

\* the wait of 300 s can pass on a future that is not done: its callable is
\* still running, or it is queued and no worker is free to take it (a free
\* worker takes queued work at once, long before the 300 s are over)
CanTimeOut(fid) ==
    /\ ~Done(fid)
    /\ futs[fid].state = "PENDING" => ~WorkerFree

ParTimeoutCancels ==
    /\ Collecting
    /\ CanTimeOut(Awaited.future)
    /\ task_results' = Append(task_results,
          FailedEntry(Awaited.agent_type, Awaited.task, ResultTimeout))
    /\ work_queue' = SelectSeq(work_queue,
                               LAMBDA it : it # ActItem(Awaited.future))
    /\ UNCHANGED <<callVars, futures, fields, retryVars, wfVars>>
    /\ UNCHANGED <<futs, orphans, kickoffs>>
    /\ UNCHANGED apiVars

\* the same iteration when the 300 s pass before the future is done
ParTimeout ==
    /\ Collecting
    /\ CanTimeOut(Awaited.future)
    /\ task_results' = Append(task_results,
          FailedEntry(Awaited.agent_type, Awaited.task, ResultTimeout))
    /\ UNCHANGED <<callVars, futures, fields, retryVars, poolVars, wfVars>>
    /\ UNCHANGED apiVars

\* `return {...}` after the collecting loop
ParReturn ==
    /\ pc = "collect"
    /\ Len(task_results) = Len(futures)
    /\ ret' = ParallelCompleted(task_results)
    /\ pc' = "done"
    /\ futures' = <<>>
    /\ task_results' = <<>>
    /\ futs' = <<>>
    /\ work_queue' = Abandon(work_queue)
    /\ orphans' = orphans + Cardinality(Running)
    /\ UNCHANGED <<op, args, raised, calls, kickoffs>>
    /\ UNCHANGED <<fields, retryVars, wfVars>>
    /\ UNCHANGED apiVars

-----------------------------------------------------------------------------
(* create_sequential_workflow and execute_workflow_async *)

\* workflow_config values: two well-formed ones and one whose agent entry has
\* no 'type' key, on which create_sequential_workflow raises KeyError
WorkflowConfigs ==
    {"wfA", "wfB", "malformed"}

WorkflowCompleted ==
    [workflow_result |-> "crew output", status |-> "completed",
     workflow_type |-> "sequential"]

WorkflowFailed(e) ==
    [workflow_result |-> None, status |-> "failed", error |-> Str(e)]

\* execute_workflow_async up to its await: the crew is built and stored in
\* self.crew, and crew.kickoff is handed to the pool
ExecuteWorkflowAsync(cfg) ==
    /\ wcalls' = wcalls + 1
    /\ IF cfg = "malformed"
       THEN /\ wret' = WorkflowFailed(Exc("KeyError", "'type'"))
            /\ UNCHANGED <<fields, work_queue>>
       ELSE /\ fields' = [fields EXCEPT !.crew = cfg]
            /\ work_queue' = Append(work_queue, KickoffItem)
            /\ UNCHANGED wret
    /\ UNCHANGED <<futs, orphans, kickoffs, callVars, retryVars, parVars>>
    /\ UNCHANGED apiVars

\* a running crew.kickoff returns or raises, and the call awaiting it returns
KickoffFinish(ok) ==
    /\ kickoffs > 0
    /\ kickoffs' = kickoffs - 1
    /\ wret' = IF ok THEN WorkflowCompleted
               ELSE WorkflowFailed(Exc("RuntimeError", "kickoff failed"))
    /\ UNCHANGED <<futs, work_queue, orphans, wcalls>>
    /\ UNCHANGED <<fields, callVars, retryVars, parVars>>
    /\ UNCHANGED apiVars

-----------------------------------------------------------------------------
(* The orchestrator under parallel calls and workflows *)

ParStart ==
    /\ calls < MaxCalls
    /\ \E ts \in TaskLists : ParCall(ts)

WorkflowStart ==
    /\ wcalls < MaxWorkflows
    /\ \E cfg \in WorkflowConfigs : ExecuteWorkflowAsync(cfg)

ActFinishes ==
    \E fid \in Running : \E b \in ActBehaviours : ActFinish(fid, b)

KickoffFinishes ==
    \E ok \in BOOLEAN : KickoffFinish(ok)

NextPar ==
    \/ ParStart
    \/ ParSubmit
    \/ ParCollect
    \/ ParTimeout
    \/ ParReturn
    \/ WorkerStart
    \/ ActFinishes
    \/ OrphanFinish

SpecPar ==
    Init /\ [][NextPar]_vars

-----------------------------------------------------------------------------
(* create_conditional_workflow *)

Branch(condition, agents) ==
    [condition |-> condition, agents |-> agents]

\* workflow_config values: 'main_sequence' and 'conditional_branches', each
\* agent config reduced to its 'type'
ConditionalConfigs ==
    [main_sequence : {<<>>, <<"dev">>, <<"dev", "bogus">>},
     conditional_branches : {<<>>, <<Branch("c1", <<"research">>)>>,
                             <<Branch("c1", <<"bogus">>)>>}]

\* the agent types in the order create_agent is called for them
RECURSIVE BranchTypes(_)
BranchTypes(branches) ==
    IF branches = <<>> THEN <<>>
    ELSE Head(branches).agents \o BranchTypes(Tail(branches))

CreatedTypes(cfg) ==
    cfg.main_sequence \o BranchTypes(cfg.conditional_branches)

AgentEntry(agent_type) ==
    [agent |-> AgentName(agent_type), config |-> [type |-> agent_type]]

AgentEntries(types) ==
    [i \in DOMAIN types |-> AgentEntry(types[i])]

ConditionalWorkflow(cfg) ==
    LET types == CreatedTypes(cfg)
        bad == {i \in DOMAIN types : CreateAgentRaises(types[i])}
    IN  IF bad # {}
        THEN [error |-> Str(CreateAgentError(
                                types[CHOOSE i \in bad : \A j \in bad : i <= j])),
              status |-> "failed"]
        ELSE [main_agents |-> AgentEntries(cfg.main_sequence),
              conditional_branches |->
                 [i \in DOMAIN cfg.conditional_branches |->
                    Branch(cfg.conditional_branches[i].condition,
                           AgentEntries(cfg.conditional_branches[i].agents))],
              workflow_type |-> "conditional"]

\* the call builds its agents and returns; it touches nothing else
CondCall(cfg) ==
    /\ Enter("create_conditional_workflow", cfg)
    /\ pc' = "done"
    /\ ret' = ConditionalWorkflow(cfg)
    /\ UNCHANGED <<fields, poolVars, wfVars>>
    /\ UNCHANGED apiVars

CondStart ==
    /\ calls < MaxCalls
    /\ \E cfg \in ConditionalConfigs : CondCall(cfg)

-----------------------------------------------------------------------------
(* The orchestrator with all its methods *)

Next ==
    \/ RetryStart
    \/ RetryAttempt
    \/ RetryExhausted
    \/ ParStart
    \/ ParSubmit
    \/ ParCollect
    \/ ParTimeout
    \/ ParReturn
    \/ CondStart
    \/ WorkflowStart
    \/ WorkerStart
    \/ ActFinishes
    \/ OrphanFinish
    \/ KickoffFinishes

Spec ==
    Init /\ [][Next]_vars

-----------------------------------------------------------------------------
(* The pool under load: calls of execute_parallel_tasks whose tasks outlive  *)
(* them, and a workflow                                                      *)

PoolTaskLists ==
    {<<TaskConfig("dev", "t1"), TaskConfig("research", "t2")>>}

PoolParStart ==
    /\ calls < PoolCalls
    /\ \E ts \in PoolTaskLists : ParCall(ts)

PoolWorkflowStart ==
    /\ wcalls < MaxWorkflows
    /\ ExecuteWorkflowAsync("wfA")

PoolRetryArgs ==
    {[agent_type |-> "dev", task |-> "t1", max_retries |-> 2],
     [agent_type |-> "bogus", task |-> "t2", max_retries |-> 1]}

PoolRetryStart ==
    /\ calls < PoolCalls
    /\ \E a \in PoolRetryArgs : RetryCall(a)

PoolConditionalConfigs ==
    {[main_sequence |-> <<"dev">>,
      conditional_branches |-> <<Branch("c1", <<"research">>)>>]}

PoolCondStart ==
    /\ calls < PoolCalls
    /\ \E cfg \in PoolConditionalConfigs : CondCall(cfg)

NextPool ==
    \/ PoolParStart
    \/ PoolRetryStart
    \/ RetryAttempt
    \/ RetryExhausted
    \/ PoolCondStart
    \/ ParSubmit
    \/ ParCollect
    \/ ParTimeout
    \/ ParReturn
    \/ PoolWorkflowStart
    \/ WorkerStart
    \/ ActFinishes
    \/ OrphanFinish
    \/ KickoffFinishes

\* a worker thread that is free and has work queued takes it
SpecPool ==
    Init /\ [][NextPool]_vars /\ WF_vars(WorkerStart)

-----------------------------------------------------------------------------
(* Claims about execute_parallel_tasks *)

InPar ==
    op = "execute_parallel_tasks"

Returned_Par ==
    InPar /\ pc = "done"

HasError(entry) ==
    "error" \in DOMAIN entry

\* C3: every task that fails (act raises, the wait times out, the agent_type
\* is not registered) is an entry with status 'failed' and an error, and the
\* other tasks' results are returned too: one entry per task.
C3_PartialFailuresCollected ==
    /\ (InPar /\ pc = "collect") =>
          \A k \in DOMAIN task_results :
             futs[futures[k].future].outcome.kind = "exception" =>
                task_results[k].status = "failed" /\ HasError(task_results[k])
    /\ Returned_Par =>
          /\ Len(ret.parallel_results) = Len(args.tasks)
          /\ \A k \in DOMAIN args.tasks :
                CreateAgentRaises(args.tasks[k].agent_type) =>
                   /\ ret.parallel_results[k].status = "failed"
                   /\ HasError(ret.parallel_results[k])

\* an entry of the result against the task it is for
EntryMatches(e, t) ==
    /\ e.agent_type = t.agent_type
    /\ e.task = t.task
    /\ \/ /\ e.status = "completed"
          /\ e.result \in {ActResult(t.agent_type, t.task, b) :
                              b \in ActBehaviours \ {"raises"}}
          /\ ~HasError(e)
       \/ /\ e.status = "failed"
          /\ e.result = None
          /\ HasError(e)

\* C4: with overall status 'completed', parallel_results has one entry per
\* input task, in the order of the task list, each with that task's
\* agent_type and task text and either status 'completed' and the result of
\* that task's agent or status 'failed', result None and an error.  While the
\* results are collected, entry k is the one of the k-th submitted future
\* and a completed entry holds that future's result.
C4_OneEntryPerTaskInOrder ==
    /\ (InPar /\ pc = "collect") =>
          \A k \in DOMAIN task_results :
             /\ EntryMatches(task_results[k], args.tasks[k])
             /\ futs[futures[k].future].fn = args.tasks[k]
             /\ task_results[k].status = "completed" =>
                   futs[futures[k].future].outcome
                      = Returned(task_results[k].result)
    /\ (Returned_Par /\ ret.status = "completed") =>
          /\ Len(ret.parallel_results) = Len(args.tasks)
          /\ \A k \in DOMAIN args.tasks :
                EntryMatches(ret.parallel_results[k], args.tasks[k])

\* two different tasks: the first one was not done when its wait ended, the
\* second one completed, and the entries are in the order of the task list
C4_Witness ==
    /\ Returned_Par
    /\ ret.status = "completed"
    /\ Len(args.tasks) = 2
    /\ args.tasks[1] # args.tasks[2]
    /\ ret.parallel_results[1].status = "failed"
    /\ ret.parallel_results[1].error = Str(ResultTimeout)
    /\ ret.parallel_results[2].status = "completed"

\* C5: successful_tasks + failed_tasks = len(parallel_results), each count is
\* the number of entries with that status; with overall status 'failed' the
\* list is empty and both counts are 0.
C5_CountsAddUp ==
    Returned_Par =>
        /\ ret.successful_tasks + ret.failed_tasks = Len(ret.parallel_results)
        /\ ret.successful_tasks =
              Cardinality({k \in DOMAIN ret.parallel_results :
                              ret.parallel_results[k].status = "completed"})
        /\ ret.failed_tasks =
              Cardinality({k \in DOMAIN ret.parallel_results :
                              ret.parallel_results[k].status = "failed"})
        /\ ret.status \in {"completed", "failed"}
        /\ ret.status = "failed" =>
              /\ ret.parallel_results = <<>>
              /\ ret.successful_tasks = 0
              /\ ret.failed_tasks = 0

\* a result with one completed and one failed entry
C5_Witness ==
    /\ Returned_Par
    /\ ret.status = "completed"
    /\ ret.successful_tasks = 1
    /\ ret.failed_tasks = 1

\* callables in the pool: queued or running
InPool ==
    Len(work_queue) + Busy

\* entry k of the running call was made by a timeout
TimedOut(k) ==
    /\ task_results[k].status = "failed"
    /\ task_results[k].error = Str(ResultTimeout)

NoCancelStep ==
    \* a callable leaves the queue only when a worker starts it
    /\ Len(work_queue') < Len(work_queue) =>
          /\ work_queue' = Tail(work_queue)
          /\ Busy' = Busy + 1
    \* and leaves the pool only by finishing, one at a time
    /\ InPool' >= InPool - 1
    /\ InPool' < InPool => Busy' = Busy - 1
    \* a timeout and a failed entry change nothing in the pool
    /\ task_results' # task_results =>
          Len(work_queue') = Len(work_queue) /\ Busy' = Busy
    \* a running callable runs until it is finished
    /\ \A fid \in DOMAIN futs \cap DOMAIN futs' :
          /\ futs[fid].state = "RUNNING" =>
                futs'[fid].state \in {"RUNNING", "FINISHED"}
          /\ futs[fid].state = "FINISHED" => futs'[fid] = futs[fid]
    \* what was reported stays as it was reported
    /\ (pc = "done" /\ calls' = calls) => ret' = ret
    /\ (pc = "collect" /\ pc' = "collect") =>
          \A k \in DOMAIN task_results : task_results'[k] = task_results[k]

\* C6: execute_parallel_tasks never cancels a submitted task: a callable
\* leaves the queue only to be run and leaves the pool only by finishing, also
\* when a wait timed out or another task failed; a timed-out task is reported
\* 'failed' with result None, and stays so when its callable finishes later.
C6_NoCancellation ==
    /\ [][NoCancelStep]_vars
    /\ [](\A fid \in DOMAIN futs : futs[fid].state # "CANCELLED")
    /\ []((InPar /\ pc = "collect") =>
            \A k \in DOMAIN task_results :
               TimedOut(k) => task_results[k].result = None)

\* a task was reported failed by timeout and its callable finished afterwards
\* with a result, while the call is still collecting
C6_Witness ==
    /\ InPar
    /\ pc = "collect"
    /\ \E k \in DOMAIN task_results :
          /\ TimedOut(k)
          /\ futs[futures[k].future].outcome.kind = "result"

-----------------------------------------------------------------------------
(* Claims about the pool *)

StartStep ==
    Busy' > Busy =>
        /\ WorkerFree
        /\ work_queue # <<>>
        /\ work_queue' = Tail(work_queue)
        /\ Busy' = Busy + 1

\* C7: the agent.act callables of execute_parallel_tasks (of the running call
\* and of the calls before it) and the crew.kickoff callables share the pool's
\* 10 workers: at most 10 of them run at any time, a callable starts only
\* from the head of the queue onto a free worker, and while a worker is free
\* the queue does not keep a callable waiting.
C7_SharedPoolOfTen ==
    /\ [](Busy <= max_workers)
    /\ [][StartStep]_vars
    /\ (work_queue # <<>> /\ WorkerFree) ~> (work_queue = <<>> \/ ~WorkerFree)

\* all 10 workers busy with callables of every kind, and callables queued
C7_Witness ==
    /\ Busy = max_workers
    /\ kickoffs > 0
    /\ orphans > 0
    /\ Running # {}
    /\ work_queue # <<>>

\* entry k of the running call is the k-th task given and the k-th submitted
InSubmissionOrder ==
    \A k \in DOMAIN futures :
       /\ futures[k].future = k
       /\ futs[k].fn = args.tasks[k]
       /\ futures[k].agent_type = args.tasks[k].agent_type
       /\ futures[k].task = args.tasks[k].task

SubmitAllThenAwait ==
    /\ (InPar /\ pc = "submit") =>
          /\ task_results = <<>>
          /\ Len(futures) < Len(args.tasks)
          /\ ENABLED ParSubmit
    /\ (InPar /\ pc = "collect") =>
          /\ Len(futures) = Len(args.tasks)
          /\ Len(task_results) <= Len(futures)
    /\ InPar => InSubmissionOrder

AwaitStep ==
    task_results' # task_results /\ pc' = "collect" =>
        /\ pc = "collect"
        /\ Len(task_results') = Len(task_results) + 1
        /\ SubSeq(task_results', 1, Len(task_results)) = task_results
        /\ task_results'[Len(task_results')].task = Awaited.task
        /\ task_results'[Len(task_results')].agent_type = Awaited.agent_type

\* every queued task could be started now, after those queued before it,
\* without any callable finishing first
StartNeedsNoCompletion ==
    \A i \in DOMAIN work_queue :
       work_queue[i].kind = "act" => Busy + i <= max_workers

-----------------------------------------------------------------------------
(* Claims about the orchestrator's state *)

\* the fields change only in execute_workflow_async's call of
\* create_sequential_workflow, and only the field crew does
FrameStep ==
    fields' # fields =>
        /\ wcalls' = wcalls + 1
        /\ fields' = [fields EXCEPT !.crew = fields'.crew]

\* the last exception the retry loop caught, read from what the agent did
TraceError ==
    IF EventsOf({"raises"}) = {} THEN None
    ELSE IF CreateAgentRaises(args.agent_type)
    THEN CreateAgentError(args.agent_type)
    ELSE ActError

\* the value execute_with_retry returns, read from its arguments and from
\* what the agent did in each attempt
RetryResultOf(a, trace) ==
    IF trace # <<>> /\ trace[Len(trace)].ev \in {"generated", "llm_error"}
    THEN RetrySuccess(ActResult(a.agent_type, a.task, trace[Len(trace)].ev),
                      trace[Len(trace)].n - 1)
    ELSE RetryFailure(a, TraceError)

\* a returned call's result is a function of its arguments and of its own
\* agents' outcomes
ResultFromArguments ==
    (pc = "done" /\ raised = None) =>
        CASE op = "execute_with_retry" ->
                ret = RetryResultOf(args, rtrace)
          [] op = "create_conditional_workflow" ->
                ret = ConditionalWorkflow(args)
          [] op = "execute_parallel_tasks" ->
                IF \E k \in DOMAIN args.tasks :
                      CreateAgentRaises(args.tasks[k].agent_type)
                THEN ret = ParallelFailed(CreateAgentError("bogus"))
                ELSE /\ ret.status = "completed"
                     /\ ret.successful_tasks + ret.failed_tasks
                           = Len(args.tasks)
                     /\ Len(ret.parallel_results) = Len(args.tasks)
          [] OTHER -> TRUE

\* a wait that times out is the outcome of the awaited task's own agent:
\* its act is running and has not returned in time
TimeoutIsOwnOutcome ==
    (Collecting /\ task_results' = Append(task_results,
          FailedEntry(Awaited.agent_type, Awaited.task, ResultTimeout)))
       => futs[Awaited.future].state = "RUNNING"

\* a wait that times out on a task that never started finds the pool's 10
\* workers taken, by callables of earlier calls among others
TimeoutIsOwnOutcomeOrLoad ==
    (Collecting /\ task_results' = Append(task_results,
          FailedEntry(Awaited.agent_type, Awaited.task, ResultTimeout)))
       => \/ futs[Awaited.future].state = "RUNNING"
          \/ Busy = max_workers /\ orphans + kickoffs > 0

\* C9 as stated: no call but create_sequential_workflow's writes a field,
\* that one writes crew only, crew is read by no call, and the result of a
\* call depends only on its arguments and on its agents' outcomes, not on the
\* calls before it.
C9_NoStateBetweenCalls ==
    /\ [][FrameStep]_vars
    /\ []ResultFromArguments
    /\ [][TimeoutIsOwnOutcome]_vars

\* C9 amended: the fields are as stated, and the result of a call depends on
\* its arguments, on its agents' outcomes and on the load earlier calls left
\* in the pool: a task queued behind 10 running callables times out without
\* having started.
C9_NoFieldStateButPoolLoad ==
    /\ [][FrameStep]_vars
    /\ []ResultFromArguments
    /\ [][TimeoutIsOwnOutcomeOrLoad]_vars

\* a call returned after crew was written and other calls were made
C9_Witness ==
    /\ pc = "done"
    /\ calls >= 3
    /\ fields.crew # "None"
    /\ op \in {"execute_with_retry", "create_conditional_workflow"}
    /\ ret # NoRet
    /\ orphans > 0

-----------------------------------------------------------------------------
(* Texts: a text is its first characters (body) followed by `pad` more      *)
(* characters "z"                                                            *)

Text(body, pad) ==
    [body |-> body, pad |-> pad]

TextLen(text) ==
    Len(text.body) + text.pad

LowerLetters ==
    <<"a", "b", "c", "d", "e", "f", "g", "h", "i", "j", "k", "l", "m", "n", "o", "p", "q", "r", "s", "t", "u", "v", "w", "x", "y", "z">>

UpperLetters ==
    <<"A", "B", "C", "D", "E", "F", "G", "H", "I", "J", "K", "L", "M", "N", "O", "P", "Q", "R", "S", "T", "U", "V", "W", "X", "Y", "Z">>

\* str.lower() on one character
LowerChar(c) ==
    IF \E i \in DOMAIN UpperLetters : UpperLetters[i] = c
    THEN LowerLetters[CHOOSE i \in DOMAIN UpperLetters : UpperLetters[i] = c]
    ELSE c

\* str.lower()
Lower(text) ==
    Text([i \in DOMAIN text.body |-> LowerChar(text.body[i])], text.pad)

Whitespace ==
    {" ", "\t", "\n"}

RECURSIVE LStrip(_)
LStrip(chars) ==
    IF chars # <<>> /\ Head(chars) \in Whitespace
    THEN LStrip(Tail(chars))
    ELSE chars

RECURSIVE RStrip(_)
RStrip(chars) ==
    IF chars # <<>> /\ chars[Len(chars)] \in Whitespace
    THEN RStrip(SubSeq(chars, 1, Len(chars) - 1))
    ELSE chars

\* str.strip()
Strip(text) ==
    IF text.pad > 0
    THEN Text(LStrip(text.body), text.pad)
    ELSE Text(RStrip(LStrip(text.body)), 0)

\* `word in text`, for a word without the character "z"
Contains(word, text) ==
    \E i \in 1..(Len(text.body) - Len(word) + 1) :
       SubSeq(text.body, i, i + Len(word) - 1) = word

\* str.replace(ch, "")
Remove(ch, chars) ==
    SelectSeq(chars, LAMBDA c : c # ch)

-----------------------------------------------------------------------------
(* SafetyFilter (utils/safety.py) *)

\* self.harmful_patterns: each pattern is its source and its alternatives,
\* matched anywhere in the text whatever the case
HarmfulPatterns ==
    <<[source |-> "(?i)(kill|harm|hurt|violence|attack|destroy)",
       words |-> {<<"k", "i", "l", "l">>,
                  <<"h", "a", "r", "m">>,
                  <<"h", "u", "r", "t">>,
                  <<"v", "i", "o", "l", "e", "n", "c", "e">>,
                  <<"a", "t", "t", "a", "c", "k">>,
                  <<"d", "e", "s", "t", "r", "o", "y">>}],
      [source |-> "(?i)(hate|racist|sexist|discriminat)",
       words |-> {<<"h", "a", "t", "e">>,
                  <<"r", "a", "c", "i", "s", "t">>,
                  <<"s", "e", "x", "i", "s", "t">>,
                  <<"d", "i", "s", "c", "r", "i", "m", "i", "n", "a", "t">>}],
      [source |-> "(?i)(illegal|crime|criminal)",
       words |-> {<<"i", "l", "l", "e", "g", "a", "l">>,
                  <<"c", "r", "i", "m", "e">>,
                  <<"c", "r", "i", "m", "i", "n", "a", "l">>}],
      [source |-> "(?i)(dangerous|weapon|gun|explosive)",
       words |-> {<<"d", "a", "n", "g", "e", "r", "o", "u", "s">>,
                  <<"w", "e", "a", "p", "o", "n">>,
                  <<"g", "u", "n">>,
                  <<"e", "x", "p", "l", "o", "s", "i", "v", "e">>}]>>

\* self.sensitive_topics
SensitiveTopics ==
    <<<<"s", "e", "l", "f", "-", "h", "a", "r", "m">>,
      <<"s", "u", "i", "c", "i", "d", "e">>,
      <<"v", "i", "o", "l", "e", "n", "c", "e">>,
      <<"h", "a", "r", "a", "s", "s", "m", "e", "n", "t">>,
      <<"d", "i", "s", "c", "r", "i", "m", "i", "n", "a", "t", "i", "o", "n">>,
      <<"i", "l", "l", "e", "g", "a", "l", " ", "a", "c", "t", "i", "v", "i", "t", "i", "e", "s">>,
      <<"m", "a", "l", "w", "a", "r", "e">>>>

TopicNames ==
    <<"self-harm", "suicide", "violence", "harassment",
      "discrimination", "illegal activities", "malware">>

SimplisticKeywords ==
    {<<"y", "e", "s">>,
     <<"n", "o">>,
     <<"o", "k">>,
     <<"s", "u", "r", "e">>,
     <<"f", "i", "n", "e">>}

\* re.search(pattern, text) with the flag (?i)
PatternMatches(pattern, text) ==
    \E word \in pattern.words : Contains(word, Lower(text))

TopicFound(topic, text) ==
    Contains(Remove(" ", Remove("-", topic)), Lower(text))

PatternIssues(text) ==
    LET upto[i \in 0..Len(HarmfulPatterns)] ==
            IF i = 0 THEN <<>>
            ELSE upto[i - 1] \o
                 (IF PatternMatches(HarmfulPatterns[i], text)
                  THEN <<"Pattern matched: " \o HarmfulPatterns[i].source>>
                  ELSE <<>>)
    IN  upto[Len(HarmfulPatterns)]

TopicIssues(text) ==
    LET upto[i \in 0..Len(SensitiveTopics)] ==
            IF i = 0 THEN <<>>
            ELSE upto[i - 1] \o
                 (IF TopicFound(SensitiveTopics[i], text)
                  THEN <<"Sensitive topic: " \o TopicNames[i]>>
                  ELSE <<>>)
    IN  upto[Len(SensitiveTopics)]

SimplisticIssues(text) ==
    IF /\ TextLen(Strip(text)) < 10
       /\ \E keyword \in SimplisticKeywords : Contains(keyword, Lower(text))
    THEN <<"Overly simplistic response">>
    ELSE <<>>

MaxUnclamped(a, b) ==
    b

Max(a, b) ==
    IF a >= b THEN a ELSE b

\* a value is a text (str), or something else a JSON body can hold
IsText(value) ==
    "body" \in DOMAIN value

NonTexts ==
    {[json |-> "number"], [json |-> "null"]}

\* re.search(pattern, text) raises TypeError for a value that is not a text
NotTextError ==
    Exc("TypeError", "expected string or bytes-like object")

\* the try block for a text; `except Exception` for anything else
check_content_safety(text) ==
    IF IsText(text)
    THEN LET issues_found ==
                 PatternIssues(text) \o TopicIssues(text)
                 \o SimplisticIssues(text)
             is_safe == Len(issues_found) = 0
         IN  [is_safe |-> is_safe,
              safety_score |-> Max(0, 100 - Len(issues_found) * 20),
              issues_found |-> issues_found,
              action |-> IF is_safe THEN "allow" ELSE "review"]
    ELSE [is_safe |-> FALSE,
          safety_score |-> 0,
          issues_found |-> <<"Error: " \o Str(NotTextError)>>,
          action |-> "review"]

Apology ==
    "I apologize, but I cannot provide that information. Please ask about something else."

filter_response(reply) ==
    IF ~check_content_safety(reply).is_safe THEN Apology ELSE reply

\* re.match(r'https?://[^\s]+', user_input)
UrlMatches(text) ==
    \E scheme \in {<<"h", "t", "t", "p", ":", "/", "/">>,
                   <<"h", "t", "t", "p", "s", ":", "/", "/">>} :
       /\ Len(text.body) >= Len(scheme)
       /\ SubSeq(text.body, 1, Len(scheme)) = scheme
       /\ IF Len(text.body) > Len(scheme)
          THEN text.body[Len(scheme) + 1] \notin Whitespace
          ELSE text.pad > 0

validate_input(user_input, input_type) ==
    LET safety_result == check_content_safety(user_input)
        length_issues ==
            IF TextLen(user_input) > max_input_length THEN <<"Input too long">>
            ELSE IF TextLen(Strip(user_input)) = 0 THEN <<"Empty input">>
            ELSE <<>>
        url_issues ==
            IF input_type = "url" /\ ~UrlMatches(user_input)
            THEN <<"Invalid URL format">>
            ELSE <<>>
        validation_issues == length_issues \o url_issues
        is_valid == Len(validation_issues) = 0 /\ safety_result.is_safe
    IN  [is_valid |-> is_valid,
         safety_check |-> safety_result,
         validation_issues |-> validation_issues,
         recommendation |-> IF is_valid THEN "accept" ELSE "reject"]

-----------------------------------------------------------------------------
(* The API (api.py): startup_event and POST /ask_agent/{agent_type} *)

\* the global components in the order startup_event initialises them
ComponentOrder ==
    <<"llm_manager", "agent_factory", "direct_rag", "blip_helper",
      "whisper_helper", "crew_orchestrator", "mlflow_manager",
      "safety_filter">>

\* startup_event: the components are initialised in order; a constructor
\* that raises ends it with the later ones still None (n of them were set)
StartupEvent(n) ==
    /\ components' = components \cup {ComponentOrder[i] : i \in 1..n}
    /\ startup' = IF n = Len(ComponentOrder) THEN "completed" ELSE "raised"
    /\ UNCHANGED <<askVars, health, docVars, mlVars, safetyVars>>
    /\ UNCHANGED orchVars

\* the event runs once, when the process starts
Startup ==
    /\ startup = "none"
    /\ requests = 0
    /\ doc_requests = 0
    /\ \E n \in 0..Len(ComponentOrder) : StartupEvent(n)

HealthStatusAny(comps) ==
    IF \E c \in DOMAIN comps : comps[c] THEN "healthy" ELSE "degraded"

\* all_healthy = all(components.values()) and the status made of it
HealthStatus(comps) ==
    IF \A c \in DOMAIN comps : comps[c] THEN "healthy" ELSE "degraded"

\* GET /health
health_check ==
    LET comps == [c \in {ComponentOrder[i] : i \in DOMAIN ComponentOrder}
                     |-> c \in components]
    IN  /\ health' = [status |-> HealthStatus(comps),
                      components |-> comps,
                      timestamp |-> "now"]
        /\ UNCHANGED <<startVars, askVars, docVars, mlVars, safetyVars>>
        /\ UNCHANGED orchVars

\* the question texts sent
QuestionBodies ==
    {<<>>,
     <<" ", " ">>,
     <<"w", "h", "a", "t", " ", "i", "s", " ", "t", "l", "a">>,
     <<"h", "o", "w", " ", "t", "o", " ", "k", "i", "l", "l", " ", "a", " ", "j", "o", "b">>,
     <<"I", " ", "H", "A", "T", "E", " ", "i", "t">>,
     <<"o", "k">>,
     <<"N", "o">>,
     <<"m", "a", "l", "w", "a", "r", "e">>,
     <<"s", "e", "l", "f", "-", "h", "a", "r", "m">>,
     <<"i", "s", " ", "i", "t", " ", "l", "e", "g", "a", "l">>,
     <<"s", "u", "r", "e", " ", "t", "h", "i", "n", "g", ",", " ", "g", "o", " ", "o", "n">>}

Questions ==
    {Text(body, 0) : body \in QuestionBodies}
    \cup {Text(<<"w", "h", "a", "t", " ", "i", "s", " ", "t", "l", "a">>, pad) :
            pad \in {max_input_length - 11, max_input_length - 10}}
    \cup {Text(<<" ">>, max_input_length)}

\* the request bodies: with a question, or without the key
Queries ==
    {[question |-> q, context |-> "ctx"] : q \in Questions}
    \cup {[context |-> "ctx"]}

\* query.get("question", "")
QuestionOf(query) ==
    IF "question" \in DOMAIN query THEN query.question ELSE Text(<<>>, 0)

\* fastapi's HTTPException; its str is "<status_code>: <detail>"
HTTPException(status_code, detail) ==
    [cls |-> "HTTPException",
     msg |-> ToString(status_code) \o ": " \o detail,
     status_code |-> status_code,
     detail |-> detail]

Outcome(kind, value, events) ==
    [kind |-> kind, value |-> value, events |-> events]

\* what the handler calls when it calls agent.act: the registered agents'
\* act calls LLMManager.generate once
ActEvents(b) ==
    IF b \in {"generated", "llm_error"} THEN <<"act", "generate">>
    ELSE <<"act">>

AskAgentTryAgentFirst(agent_type, query, b) ==
    LET task == QuestionOf(query)
    IN  IF "safety_filter" \notin components
        THEN Outcome("raise",
                     Exc("AttributeError",
                         "'NoneType' object has no attribute 'validate_input'"),
                     <<>>)
        ELSE IF CreateAgentRaises(agent_type)
        THEN Outcome("raise", CreateAgentError(agent_type),
                     <<"create_agent">>)
        ELSE IF ActRaises(b)
        THEN Outcome("raise", ActError, <<"create_agent">> \o ActEvents(b))
        ELSE IF ~validate_input(task, "text").is_valid
        THEN Outcome("raise",
                     HTTPException(400, "Query failed safety check"),
                     <<"create_agent">> \o ActEvents(b)
                        \o <<"validate_input">>)
        ELSE Outcome("return", ActResult(agent_type, task, b),
                     <<"create_agent">> \o ActEvents(b)
                        \o <<"validate_input">>)

\* the try block of ask_agent, when the agent's act behaves as b
AskAgentTry(agent_type, query, b) ==
    LET task == QuestionOf(query)
    IN  IF "safety_filter" \notin components
        THEN Outcome("raise",
                     Exc("AttributeError",
                         "'NoneType' object has no attribute 'validate_input'"),
                     <<>>)
        ELSE IF ~validate_input(task, "text").is_valid
        THEN Outcome("raise",
                     HTTPException(400, "Query failed safety check"),
                     <<"validate_input">>)
        ELSE IF CreateAgentRaises(agent_type)
        THEN Outcome("raise", CreateAgentError(agent_type),
                     <<"validate_input", "create_agent">>)
        ELSE IF ActRaises(b)
        THEN Outcome("raise", ActError,
                     <<"validate_input", "create_agent">> \o ActEvents(b))
        ELSE Outcome("return", ActResult(agent_type, task, b),
                     <<"validate_input", "create_agent">> \o ActEvents(b))

AskAgentHandlerOneClause(agent_type, query, b) ==
    LET out == AskAgentTry(agent_type, query, b)
        e == out.value
    IN  IF out.kind = "return" THEN out
        ELSE IF IsInstance(e, "Exception")
        THEN Outcome("raise", HTTPException(500, Str(e)), out.events)
        ELSE out

\* the handler with its except clauses, in their order
AskAgentHandler(agent_type, query, b) ==
    LET out == AskAgentTry(agent_type, query, b)
        e == out.value
    IN  IF out.kind = "return" THEN out
        ELSE IF IsInstance(e, "ValueError")
        THEN Outcome("raise",
                     HTTPException(404, "Agent type not found: " \o agent_type),
                     out.events)
        ELSE IF IsInstance(e, "Exception")
        THEN Outcome("raise", HTTPException(500, Str(e)), out.events)
        ELSE out

\* what the client gets: the returned dict with 200, or the HTTPException's
\* status code and detail
HttpResponse(out) ==
    IF out.kind = "return"
    THEN [status_code |-> 200, body |-> out.value]
    ELSE [status_code |-> out.value.status_code, detail |-> out.value.detail]

ask_agent(agent_type, query, b) ==
    /\ requests < MaxRequests
    /\ requests' = requests + 1
    /\ request' = [agent_type |-> agent_type, query |-> query]
    /\ LET out == AskAgentHandler(agent_type, query, b)
       IN  /\ response' = HttpResponse(out)
           /\ api_events' = out.events
    /\ UNCHANGED <<startVars, health, docVars, mlVars, safetyVars>>
    /\ UNCHANGED orchVars

\* the agent_type path values sent: the registered types and an unknown one
ApiAgentTypes ==
    AgentRegistry \cup {"bogus"}

AskAgent ==
    \E agent_type \in ApiAgentTypes : \E query \in Queries :
       \E b \in ActBehaviours : ask_agent(agent_type, query, b)

NextApi ==
    \/ Startup
    \/ health_check
    \/ AskAgent

SpecApi ==
    Init /\ [][NextApi]_vars

-----------------------------------------------------------------------------
(* DocumentProcessor (utils/document_processor.py) *)

\* str.endswith(suffix)
EndsWith(chars, suffix) ==
    /\ Len(chars) >= Len(suffix)
    /\ SubSeq(chars, Len(chars) - Len(suffix) + 1, Len(chars)) = suffix

LowerChars(chars) ==
    [i \in DOMAIN chars |-> LowerChar(chars[i])]

\* get_supported_formats()
SupportedFormats ==
    {<<".", "t", "x", "t">>,
     <<".", "m", "d">>,
     <<".", "p", "d", "f">>,
     <<".", "d", "o", "c">>,
     <<".", "d", "o", "c", "x">>,
     <<".", "p", "y">>,
     <<".", "j", "s">>,
     <<".", "h", "t", "m", "l">>,
     <<".", "c", "s", "s">>,
     <<".", "j", "s", "o", "n">>,
     <<".", "x", "m", "l">>}

PdfSuffixes ==
    {<<".", "p", "d", "f">>}

WordSuffixes ==
    {<<".", "d", "o", "c">>, <<".", "d", "o", "c", "x">>}

is_supported_format(filename) ==
    IF filename = <<>> THEN FALSE
    ELSE \E fmt \in SupportedFormats : EndsWith(LowerChars(filename), fmt)

\* the messages _extract_from_pdf and _extract_from_word return instead of
\* text
PdfNoText ==
    <<"P", "D", "F", " ", "f", "i", "l", "e", " ", "p", "r", "o", "c", "e",
      "s", "s", "e", "d", " ", "b", "u", "t", " ", "n", "o", " ", "t", "e",
      "x", "t", " ", "c", "o", "n", "t", "e", "n", "t", " ", "c", "o", "u",
      "l", "d", " ", "b", "e", " ", "e", "x", "t", "r", "a", "c", "t", "e",
      "d", ".", " ", "T", "h", "e", " ", "P", "D", "F", " ", "m", "i", "g",
      "h", "t", " ", "c", "o", "n", "t", "a", "i", "n", " ", "o", "n", "l",
      "y", " ", "i", "m", "a", "g", "e", "s", " ", "o", "r", " ", "b", "e",
      " ", "p", "a", "s", "s", "w", "o", "r", "d", " ", "p", "r", "o", "t",
      "e", "c", "t", "e", "d", ".">>

PdfNotAvailable ==
    <<"P", "D", "F", " ", "p", "r", "o", "c", "e", "s", "s", "i", "n", "g",
      " ", "n", "o", "t", " ", "a", "v", "a", "i", "l", "a", "b", "l", "e",
      ".", " ", "P", "l", "e", "a", "s", "e", " ", "i", "n", "s", "t", "a",
      "l", "l", " ", "P", "y", "P", "D", "F", "2", ":", " ", "p", "i", "p",
      " ", "i", "n", "s", "t", "a", "l", "l", " ", "P", "y", "P", "D", "F",
      "2">>

PdfErrorPrefix ==
    <<"E", "r", "r", "o", "r", " ", "p", "r", "o", "c", "e", "s", "s", "i",
      "n", "g", " ", "P", "D", "F", ":", " ">>

WordNoText ==
    <<"W", "o", "r", "d", " ", "d", "o", "c", "u", "m", "e", "n", "t", " ",
      "p", "r", "o", "c", "e", "s", "s", "e", "d", " ", "b", "u", "t", " ",
      "n", "o", " ", "t", "e", "x", "t", " ", "c", "o", "n", "t", "e", "n",
      "t", " ", "f", "o", "u", "n", "d", ".">>

WordNotAvailable ==
    <<"W", "o", "r", "d", " ", "d", "o", "c", "u", "m", "e", "n", "t", " ",
      "p", "r", "o", "c", "e", "s", "s", "i", "n", "g", " ", "n", "o", "t",
      " ", "a", "v", "a", "i", "l", "a", "b", "l", "e", ".", " ", "P", "l",
      "e", "a", "s", "e", " ", "i", "n", "s", "t", "a", "l", "l", " ", "p",
      "y", "t", "h", "o", "n", "-", "d", "o", "c", "x", ":", " ", "p", "i",
      "p", " ", "i", "n", "s", "t", "a", "l", "l", " ", "p", "y", "t", "h",
      "o", "n", "-", "d", "o", "c", "x">>

WordErrorPrefix ==
    <<"E", "r", "r", "o", "r", " ", "p", "r", "o", "c", "e", "s", "s", "i",
      "n", "g", " ", "W", "o", "r", "d", " ", "d", "o", "c", "u", "m", "e",
      "n", "t", ":", " ">>

\* str(e) of the exception a PDF or Word library raises on a file it cannot
\* parse
ParseErrorText ==
    <<"E", "O", "F", " ", "m", "a", "r", "k", "e", "r", " ", "n", "o", "t",
      " ", "f", "o", "u", "n", "d">>

\* An uploaded file: its name, whether file.read() works, whether the bytes
\* can be parsed (by the library of the format, or decoded as text), and the
\* text in them.
UploadFile(filename, readable, parses, text) ==
    [filename |-> filename, readable |-> readable, parses |-> parses,
     text |-> text]

\* text_content.strip() is not empty
NonBlank(text) ==
    TextLen(Strip(text)) > 0

\* _extract_from_pdf: the pages' text stripped, or a message
extract_from_pdf(file, libs) ==
    IF "PyPDF2" \notin libs THEN Text(PdfNotAvailable, 0)
    ELSE IF ~file.parses THEN Text(PdfErrorPrefix \o ParseErrorText, 0)
    ELSE IF ~NonBlank(file.text) THEN Text(PdfNoText, 0)
    ELSE Strip(file.text)

\* _extract_from_word: the paragraphs' text stripped, or a message
extract_from_word(file, libs) ==
    IF "docx" \notin libs THEN Text(WordNotAvailable, 0)
    ELSE IF ~file.parses THEN Text(WordErrorPrefix \o ParseErrorText, 0)
    ELSE IF ~NonBlank(file.text) THEN Text(WordNoText, 0)
    ELSE Strip(file.text)

\* extract_text_from_bytes: (text_content, file_type), or the exception of
\* _extract_from_text when the detected encoding is unknown to the codec
\* registry
extract_text_from_bytes(file, libs) ==
    LET filename_lower == LowerChars(file.filename)
    IN  IF \E sfx \in PdfSuffixes : EndsWith(filename_lower, sfx)
        THEN Outcome("return",
                     [text_content |-> extract_from_pdf(file, libs),
                      file_type |-> "pdf"], <<>>)
        ELSE IF \E sfx \in WordSuffixes : EndsWith(filename_lower, sfx)
        THEN Outcome("return",
                     [text_content |-> extract_from_word(file, libs),
                      file_type |-> "word"], <<>>)
        ELSE IF ~file.parses
        THEN Outcome("raise", Exc("LookupError", "unknown encoding"), <<>>)
        ELSE Outcome("return",
                     [text_content |-> file.text, file_type |-> "text"], <<>>)

-----------------------------------------------------------------------------
(* DirectRAG.process_and_query (direct_rag.py) *)

DocEvent(ev, i) ==
    [ev |-> ev, file |-> i]

\* content[:200] + "..." if len(content) > 200 else content, for a text
\* without padding
ContentPreview(text) ==
    IF Len(text.body) > 200
    THEN Text(SubSeq(text.body, 1, 200) \o <<".", ".", ".">>, 0)
    ELSE text

DocInfo(doc) ==
    [filename |-> doc.filename,
     file_type |-> doc.file_type,
     content_length |-> TextLen(doc.content),
     content_preview |-> ContentPreview(doc.content)]

\* the dict returned and the LLM calls made, b being what generate does
process_and_query(documents, query, b) ==
    LET with_content == SelectSeq(documents, LAMBDA d : NonBlank(d.content))
        doc_info == [i \in DOMAIN with_content |-> DocInfo(with_content[i])]
    IN  IF documents = <<>>
        THEN Outcome("return",
               [response |->
                  "No documents provided. Please upload documents to query.",
                query |-> query, documents_processed |-> 0,
                has_context |-> FALSE], <<>>)
        ELSE IF with_content = <<>>
        THEN Outcome("return",
               [response |->
                  "No valid content found in the uploaded documents.",
                query |-> query, documents_processed |-> Len(documents),
                has_context |-> FALSE], <<>>)
        ELSE Outcome("return",
               [response |-> Generate(b),
                query |-> query,
                documents_processed |-> Len(doc_info),
                processed_documents |-> doc_info,
                has_context |-> TRUE], <<DocEvent("generate", 0)>>)

-----------------------------------------------------------------------------
(* POST /query_documents (api.py) *)

\* the call direct_rag.process_and_query(processed_documents, query)
RagCall(documents) ==
    [ev |-> "process_and_query", file |-> 0, documents |-> documents]

DocError(msg) ==
    [status |-> "error", error |-> msg, documents_processed |-> 0]

\* one iteration of `for file in files` on files[i]: the documents and the
\* events after it
ProcessFile(acc, file, i, libs) ==
    IF ~is_supported_format(file.filename) THEN acc
    ELSE IF ~file.readable
    THEN [acc EXCEPT !.events = @ \o <<DocEvent("read", i)>>]
    ELSE LET out == extract_text_from_bytes(file, libs)
             evs == <<DocEvent("read", i), DocEvent("extract", i)>>
         IN  IF out.kind = "raise"
             THEN [acc EXCEPT !.events = @ \o evs]
             ELSE IF NonBlank(out.value.text_content)
             THEN [documents |-> Append(acc.documents,
                       [content |-> out.value.text_content,
                        filename |-> file.filename,
                        file_type |-> out.value.file_type]),
                   events |-> acc.events \o evs]
             ELSE [acc EXCEPT !.events = @ \o evs]

\* the loop over the first n files
RECURSIVE ProcessFiles(_, _, _)
ProcessFiles(files, n, libs) ==
    IF n = 0 THEN [documents |-> <<>>, events |-> <<>>]
    ELSE ProcessFile(ProcessFiles(files, n - 1, libs), files[n], n, libs)

\* the try block of the handler: what it returns or raises, and what it did
QueryDocumentsTry(files, query, libs, b) ==
    IF ~NonBlank(query)
    THEN Outcome("return", DocError("Query is required"), <<>>)
    ELSE LET processed == ProcessFiles(files, Len(files), libs)
         IN  IF processed.documents = <<>>
             THEN Outcome("return",
                          DocError("No valid documents could be processed"),
                          processed.events)
             ELSE IF "direct_rag" \notin components
             THEN Outcome("raise",
                     Exc("AttributeError",
                         "'NoneType' object has no attribute "
                         \o "'process_and_query'"),
                     processed.events)
             ELSE LET out == process_and_query(processed.documents, query, b)
                  IN  Outcome("return",
                              [status |-> "success"] @@ out.value,
                              processed.events
                                 \o <<RagCall(processed.documents)>>
                                 \o out.events)

\* the handler with its `except Exception`
QueryDocumentsHandler(files, query, libs, b) ==
    LET out == QueryDocumentsTry(files, query, libs, b)
    IN  IF out.kind = "raise" /\ IsInstance(out.value, "Exception")
        THEN Outcome("return", DocError(Str(out.value)), out.events)
        ELSE out

\* the file names uploaded
Filenames ==
    {<<"a", ".", "p", "d", "f">>,
     <<"b", ".", "D", "O", "C", "X">>,
     <<"c", ".", "t", "x", "t">>,
     <<"d", ".", "e", "x", "e">>,
     <<>>}

\* the texts in the uploaded files
FileTexts ==
    {Text(<<>>, 0), Text(<<" ", "\n">>, 0), Text(<<"h", "i", " ">>, 0)}

UploadFiles ==
    {UploadFile(f, TRUE, TRUE, t) : f \in Filenames, t \in FileTexts}
    \cup {UploadFile(f, TRUE, FALSE, Text(<<>>, 0)) : f \in Filenames}
    \cup {UploadFile(f, FALSE, TRUE, Text(<<>>, 0)) : f \in Filenames}

FileLists ==
    UNION {[1..n -> UploadFiles] : n \in 0..MaxFiles}

DocQueries ==
    {Text(<<" ">>, 0), Text(<<"w", "h", "y", "?">>, 0)}

\* the PDF and Word libraries installed in the process
LibrarySets ==
    {{}, {"PyPDF2", "docx"}}

query_documents(files, query, libs, b) ==
    /\ doc_requests < MaxDocRequests
    /\ doc_requests' = doc_requests + 1
    /\ doc_request' = [files |-> files, query |-> query, libs |-> libs]
    /\ LET out == QueryDocumentsHandler(files, query, libs, b)
       IN  /\ doc_response' = IF out.kind = "return" THEN out.value
                              ELSE [raised |-> out.value]
           /\ doc_events' = out.events
    /\ UNCHANGED <<startVars, askVars, health, mlVars, safetyVars>>
    /\ UNCHANGED orchVars

QueryDocuments ==
    \E files \in FileLists : \E query \in DocQueries :
       \E libs \in LibrarySets : \E b \in {"generated", "llm_error"} :
          query_documents(files, query, libs, b)

NextDocs ==
    \/ Startup
    \/ QueryDocuments

SpecDocs ==
    Init /\ [][NextDocs]_vars

-----------------------------------------------------------------------------
(* The calls of SafetyFilter *)

\* the texts checked, besides the questions: with one issue, with several,
\* with more than five; URLs, well formed or not
SafetyTextBodies ==
    {<<"k", "i", "l", "l", " ", "h", "a", "t", "e", " ", "c", "r", "i", "m", "e", " ", "g", "u", "n", " ", "s", "u", "i", "c", "i", "d", "e">>,
     <<"v", "i", "o", "l", "e", "n", "c", "e">>,
     <<"I", "l", "l", "e", "g", "a", "l", " ", "A", "c", "t", "i", "v", "i", "t", "i", "e", "s", ":", " ", "m", "a", "l", "w", "a", "r", "e", ",", " ", "h", "a", "r", "a", "s", "s", "m", "e", "n", "t", ",", " ", "d", "i", "s", "c", "r", "i", "m", "i", "n", "a", "t", "i", "o", "n", ",", " ", "v", "i", "o", "l", "e", "n", "c", "e", " ", "a", "n", "d", " ", "s", "e", "l", "f", "-", "h", "a", "r", "m", " ", "w", "i", "t", "h", " ", "a", " ", "w", "e", "a", "p", "o", "n", ";", " ", "s", "u", "i", "c", "i", "d", "e">>,
     <<"s", "e", "l", "f", "h", "a", "r", "m", " ", "i", "l", "l", "e", "g", "a", "l", "a", "c", "t", "i", "v", "i", "t", "i", "e", "s">>,
     <<"h", "t", "t", "p", ":", "/", "/", "a", ".", "b", "/", "c">>,
     <<"h", "t", "t", "p", "s", ":", "/", "/", "g", "u", "n", ".", "i", "o">>,
     <<"f", "t", "p", ":", "/", "/", "a", ".", "b">>,
     <<"h", "t", "t", "p", ":", "/", "/", " ", "a">>,
     <<"h", "t", "t", "p", ":", "/", "/">>,
     <<"y", "e", "s">>,
     <<" ", "f", "i", "n", "e", "\t">>}

SafetyTexts ==
    Questions \cup {Text(body, 0) : body \in SafetyTextBodies}

\* what a caller can pass: a text, or another JSON value
SafetyInputs ==
    SafetyTexts \cup NonTexts

InputTypes ==
    {"text", "url"}

SafetyCall(call, result) ==
    /\ safety_calls' = safety_calls + 1
    /\ safety_call' = call
    /\ safety_out' = result
    /\ UNCHANGED <<startVars, askVars, health, docVars, mlVars>>
    /\ UNCHANGED orchVars

\* POST /safety/check: the result of check_content_safety is the response
safety_check ==
    \E text \in SafetyInputs :
       /\ safety_calls < MaxSafetyCalls
       /\ SafetyCall([method |-> "check_content_safety", text |-> text],
                     [kind |-> "return", value |-> check_content_safety(text)])

\* validate_input: len(user_input) raises for a value without a length
ValidateInput ==
    \E user_input \in SafetyInputs : \E input_type \in InputTypes :
       /\ safety_calls < MaxSafetyCalls
       /\ SafetyCall([method |-> "validate_input", text |-> user_input,
                      input_type |-> input_type],
                     IF IsText(user_input)
                     THEN [kind |-> "return",
                           value |-> validate_input(user_input, input_type)]
                     ELSE [kind |-> "raise",
                           value |-> Exc("TypeError", "object has no len()")])

FilterResponse ==
    \E reply \in SafetyInputs :
       /\ safety_calls < MaxSafetyCalls
       /\ SafetyCall([method |-> "filter_response", text |-> reply],
                     [kind |-> "return", value |-> filter_response(reply)])

NextSafety ==
    \/ safety_check
    \/ ValidateInput
    \/ FilterResponse

SpecSafety ==
    Init /\ [][NextSafety]_vars

-----------------------------------------------------------------------------
(* MLflowManager (mlops/mlflow_manager.py).  The mlflow calls it makes work *)
(* on the tracking store and each of them can raise.                        *)

\* the store and the stack of active runs, as the mlflow calls change them
MlState(active, runs) ==
    [active |-> active, runs |-> runs]

MlRun(name, status) ==
    [name |-> name, status |-> status]

MlStep(kind, st, value) ==
    [kind |-> kind, st |-> st, value |-> value]

StoreError(name) ==
    Exc("MlflowException", name \o " failed")

\* MLflowManager.start_run -> mlflow.start_run(run_name, tags): creates a
\* run and makes it the active one; raises when a run is active already or
\* the store fails
start_run(st, run_name, fails) ==
    IF fails THEN MlStep("raise", st, StoreError("start_run"))
    ELSE IF st.active # <<>>
    THEN MlStep("raise", st, Exc("Exception", "Run is already active"))
    ELSE MlStep("return",
                MlState(Append(st.active, Len(st.runs) + 1),
                        Append(st.runs, MlRun(run_name, "RUNNING"))),
                None)

\* MLflowManager.end_run -> mlflow.end_run(): nothing without an active run;
\* otherwise the run leaves the stack and is set terminated in the store,
\* which can fail
end_run(st, fails) ==
    IF st.active = <<>> THEN MlStep("return", st, None)
    ELSE LET id == st.active[Len(st.active)]
             popped == SubSeq(st.active, 1, Len(st.active) - 1)
         IN  IF fails
             THEN MlStep("raise", MlState(popped, st.runs),
                         StoreError("end_run"))
             ELSE MlStep("return",
                         MlState(popped,
                                 [st.runs EXCEPT ![id].status = "FINISHED"]),
                         None)

\* n calls of the same kind
Repeat(name, n) ==
    [i \in 1..n |-> name]

\* the calls of the try block of each method after start_run and before
\* end_run, in order
LogCalls(call) ==
    CASE call.method = "log_agent_metrics" ->
            Repeat("log_metric", call.metrics)
            \o Repeat("log_param", call.parameters)
            \o <<"log_text">>
      [] call.method = "log_model_performance" ->
            Repeat("log_metric", call.metrics)
      [] call.method = "log_training_run" ->
            Repeat("log_param", call.parameters)
            \o Repeat("log_metric", call.metrics)
            \o (IF call.artifact THEN <<"log_artifact">> ELSE <<>>)
            \o <<"write_config", "log_artifact">>

RunName(call) ==
    CASE call.method = "log_agent_metrics" -> "agent_" \o call.name
      [] call.method = "log_model_performance" -> "model_eval_" \o call.name
      [] call.method = "log_training_run" -> "training_" \o call.name

\* The try block of a log_* method when its k-th call raises (none when k is
\* 0): call 1 is start_run, the last call is end_run.
LogTry(st, call, k) ==
    LET ops == <<"start_run">> \o LogCalls(call) \o <<"end_run">>
        started == start_run(st, RunName(call), k = 1)
    IN  IF started.kind = "raise"
        THEN [started EXCEPT !.value = [exc |-> @, events |-> <<"start_run">>]]
        ELSE IF k \in 2..(Len(ops) - 1)
        THEN MlStep("raise", started.st,
                    [exc |-> StoreError(ops[k]),
                     events |-> SubSeq(ops, 1, k)])
        ELSE LET ended == end_run(started.st, k = Len(ops))
             IN  [ended EXCEPT !.value = [exc |-> @, events |-> ops]]

\* a log_* method: the try block, and `except Exception` with its
\* self.end_run(); down: the store fails for that end_run too
LogMethod(st, call, k, down) ==
    LET body == LogTry(st, call, k)
    IN  IF body.kind = "return" THEN body
        ELSE LET ended == end_run(body.st, down)
             IN  [ended EXCEPT
                    !.value = [exc |-> @,
                               events |-> body.value.events \o <<"end_run">>]]

\* the arguments the methods are called with: the sizes of the dicts, and
\* whether model_artifact_path is given
LogCallArgs ==
    [method : {"log_agent_metrics"}, name : {"dev"},
     metrics : 0..MaxEntries, parameters : 0..MaxEntries]
    \cup [method : {"log_model_performance"}, name : {"m"},
          metrics : 0..MaxEntries]
    \cup [method : {"log_training_run"}, name : {"m"},
          metrics : 0..MaxEntries, parameters : 0..MaxEntries,
          artifact : BOOLEAN]

LogCall(call, k, down) ==
    /\ ml_calls < MaxLogCalls
    /\ k <= Len(LogCalls(call)) + 2
    /\ ml_calls' = ml_calls + 1
    /\ ml_call' = call
    /\ LET out == LogMethod(MlState(ml_active, ml_runs), call, k, down)
       IN  /\ ml_active' = out.st.active
           /\ ml_runs' = out.st.runs
           /\ ml_result' = [kind |-> out.kind, exc |-> out.value.exc]
           /\ ml_events' = out.value.events
    /\ UNCHANGED <<startVars, askVars, health, docVars, safetyVars>>
    /\ UNCHANGED orchVars

log_agent_metrics ==
    \E call \in LogCallArgs : \E k \in 0..(2 * MaxEntries + 3) :
       \E down \in BOOLEAN :
          call.method = "log_agent_metrics" /\ LogCall(call, k, down)

log_model_performance ==
    \E call \in LogCallArgs : \E k \in 0..(MaxEntries + 2) :
       \E down \in BOOLEAN :
          call.method = "log_model_performance" /\ LogCall(call, k, down)

log_training_run ==
    \E call \in LogCallArgs : \E k \in 0..(2 * MaxEntries + 5) :
       \E down \in BOOLEAN :
          call.method = "log_training_run" /\ LogCall(call, k, down)

NextMlflow ==
    \/ log_agent_metrics
    \/ log_model_performance
    \/ log_training_run

SpecMlflow ==
    Init /\ [][NextMlflow]_vars

-----------------------------------------------------------------------------
(* Claims about the API *)

Answered ==
    requests > 0

Rejected ==
    /\ Answered
    /\ "safety_filter" \in components
    /\ ~validate_input(QuestionOf(request.query), "text").is_valid

\* C10: whenever validate_input rejects the question (unsafe content, empty
\* input, more than 10000 characters), /ask_agent answers HTTP 400 with the
\* detail 'Query failed safety check', for every agent_type.
C10_RejectedQuestionIs400 ==
    Rejected =>
        /\ response.status_code = 400
        /\ response.detail = "Query failed safety check"

\* the question of the last request passes validate_input
QuestionValid ==
    validate_input(QuestionOf(request.query), "text").is_valid

AgentEvents ==
    {"create_agent", "act", "generate"}

\* C11: in ask_agent the safety check comes first: for a rejected question
\* the handler calls validate_input and nothing else (no agent is created,
\* act is not called, no LLM call is made), and create_agent, act and the
\* LLM call happen only after validate_input accepted the question.
C11_SafetyCheckPrecedesAgent ==
    Answered =>
        /\ Rejected => api_events = <<"validate_input">>
        /\ \A i \in DOMAIN api_events :
              api_events[i] \in AgentEvents =>
                 /\ QuestionValid
                 /\ \E j \in 1..(i - 1) : api_events[j] = "validate_input"

\* a rejected question sent to a registered agent: only the check ran
C11_Witness ==
    /\ Rejected
    /\ request.agent_type \in AgentRegistry
    /\ api_events = <<"validate_input">>

\* the last request had a question that passes the safety check
Accepted ==
    /\ Answered
    /\ "safety_filter" \in components
    /\ QuestionValid

\* C12: for a question that passes the safety check the answer is 404
\* ('Agent type not found: <agent_type>') exactly when agent_type is not one
\* of the six registered types; for a registered type it is the dict the
\* agent's act returned, and a failure of act is a 500.
C12_NotFoundIffUnregistered ==
    Accepted =>
        /\ response.status_code = 404 <=>
              request.agent_type \notin AgentRegistry
        /\ response.status_code = 404 =>
              response.detail = "Agent type not found: " \o request.agent_type
        /\ response.status_code \in {200, 404, 500}
        /\ response.status_code = 200 =>
              /\ api_events[Len(api_events)] \in {"act", "generate"}
              /\ response.body.agent = AgentName(request.agent_type)
              /\ response.body.task = QuestionOf(request.query)
        /\ (request.agent_type \in AgentRegistry
              /\ response.status_code # 200) =>
              /\ response.status_code = 500
              /\ api_events[Len(api_events)] = "act"

\* an accepted question for an unknown agent type was answered
C12_Witness ==
    /\ Accepted
    /\ request.agent_type \notin AgentRegistry
    /\ response.status_code = 404

\* the components reported true are the first k that startup_event sets
FirstReported(k) ==
    \A i \in DOMAIN ComponentOrder :
       health'.components[ComponentOrder[i]] <=> i <= k

\* what a health check answers, against the state it was made in
HealthStep ==
    health' # health =>
        /\ DOMAIN health'.components
              = {ComponentOrder[i] : i \in DOMAIN ComponentOrder}
        /\ Cardinality(DOMAIN health'.components) = 8
        /\ \A c \in DOMAIN health'.components :
              health'.components[c] <=> c \in components
        /\ health'.status = "healthy" <=>
              \A c \in DOMAIN health'.components : health'.components[c]
        /\ health'.status = "healthy" <=> startup = "completed"
        /\ health'.status \in {"healthy", "degraded"}
        /\ startup = "none" => FirstReported(0)
        /\ startup = "raised" =>
              \E k \in 0..(Len(ComponentOrder) - 1) : FirstReported(k)

\* C13: GET /health reports 'healthy' exactly when all eight components are
\* initialised, which is exactly when startup_event ran to completion; before
\* startup and after a failed startup it reports 'degraded', with the
\* components set before the failure true and the later ones false.
C13_HealthyIffStartupCompleted ==
    [][HealthStep]_vars

\* after a startup that failed part-way, /health reported degraded with
\* the first component true and the last one false
C13_Witness ==
    /\ startup = "raised"
    /\ health # NoRet
    /\ health.status = "degraded"
    /\ health.components["llm_manager"]
    /\ ~health.components["safety_filter"]

-----------------------------------------------------------------------------
(* Claims about /query_documents *)

DocAnswered ==
    doc_requests > 0

DocEventsOf(ev) ==
    {i \in DOMAIN doc_events : doc_events[i].ev = ev}

\* the files the handler read
FilesRead ==
    {doc_events[i].file : i \in DocEventsOf("read")}

\* the extraction of the file's text fails: the bytes cannot be read or
\* parsed, or the library of the format is missing
ExtractionFails(file, libs) ==
    LET name == LowerChars(file.filename)
    IN  \/ ~file.readable
        \/ ~file.parses
        \/ (\E sfx \in PdfSuffixes : EndsWith(name, sfx)) /\ "PyPDF2" \notin libs
        \/ (\E sfx \in WordSuffixes : EndsWith(name, sfx)) /\ "docx" \notin libs

\* the file yields non-blank text: its format is supported, the extraction
\* works and the text in the file is not blank
YieldsText(file, libs) ==
    /\ is_supported_format(file.filename)
    /\ ~ExtractionFails(file, libs)
    /\ NonBlank(file.text)

\* C14: /query_documents always returns a dict, never raises; a blank query
\* gets status 'error' with documents_processed 0 and no file is read; a file
\* with an unsupported extension is not read and the files after it are; when
\* no file yields non-blank text the answer is the error 'No valid documents
\* could be processed' with documents_processed 0; and none of these makes
\* an LLM call.
C14_InvalidInputIsAnError ==
    DocAnswered =>
        LET files == doc_request.files
            blank == ~NonBlank(doc_request.query)
            none_yields ==
                \A i \in DOMAIN files : ~YieldsText(files[i], doc_request.libs)
        IN  /\ "raised" \notin DOMAIN doc_response
            /\ doc_response.status \in {"success", "error"}
            /\ blank =>
                  /\ doc_response = DocError("Query is required")
                  /\ doc_events = <<>>
            /\ ~blank =>
                  FilesRead = {i \in DOMAIN files :
                                 is_supported_format(files[i].filename)}
            /\ (~blank /\ none_yields) =>
                  doc_response =
                     DocError("No valid documents could be processed")
            /\ (blank \/ none_yields) => DocEventsOf("generate") = {}
            /\ doc_response.status = "error" =>
                  /\ doc_response.documents_processed = 0
                  /\ DocEventsOf("generate") = {}

\* the file names of the documents that files whose extraction works and
\* gives non-blank text contribute, in order
RECURSIVE ExtractedNames(_, _)
ExtractedNames(files, libs) ==
    IF files = <<>> THEN <<>>
    ELSE LET file == files[Len(files)]
             before == ExtractedNames(SubSeq(files, 1, Len(files) - 1), libs)
         IN  IF YieldsText(file, libs)
             THEN Append(before, file.filename)
             ELSE before

\* C15: a file whose text extraction fails is skipped, whatever its format:
\* the documents passed to process_and_query are those of the files whose
\* extraction worked, and every content passed is text of its file.
C15_FailedExtractionIsSkipped ==
    DocAnswered =>
        \A i \in DocEventsOf("process_and_query") :
           LET documents == doc_events[i].documents
           IN  /\ [k \in DOMAIN documents |-> documents[k].filename]
                     = ExtractedNames(doc_request.files, doc_request.libs)
               /\ \A k \in DOMAIN documents :
                     \E j \in DOMAIN doc_request.files :
                        /\ doc_request.files[j].filename
                              = documents[k].filename
                        /\ Strip(documents[k].content)
                              = Strip(doc_request.files[j].text)

-----------------------------------------------------------------------------
(* Claims about failed LLM calls and about what execute_with_retry returns *)

RetryReturned ==
    InRetry /\ pc = "done" /\ raised = None

\* the attempts in which LLMManager.generate failed (the model API raised)
FailedGenerations ==
    EventsOf({"llm_error"})

\* C16: an attempt of execute_with_retry in which the LLM call failed counts
\* as failed: unless it was attempt number max_retries another attempt
\* follows it, and the call does not return its result as a success.
C16_FailedGenerationIsRetried ==
    RetryReturned =>
        \A i \in FailedGenerations :
           /\ rtrace[i].n < args.max_retries =>
                 \E j \in Attempts : j > i /\ rtrace[j].n = rtrace[i].n + 1
           /\ i = Len(rtrace) => ret.status = "failed"

\* the agent's LLM generation failed: response is generate's error text
GenerationFailed(result) ==
    result.response = Generate("llm_error")

\* C17: an entry of execute_parallel_tasks has status 'completed' (and is
\* counted in successful_tasks) only if the agent's LLM generation succeeded;
\* a task whose LLM call failed has status 'failed'.
C17_CompletedOnlyIfGenerated ==
    (InPar /\ pc = "collect") =>
        \A k \in DOMAIN task_results :
           LET o == futs[futures[k].future].outcome
           IN  /\ task_results[k].status = "completed" =>
                     ~GenerationFailed(task_results[k].result)
               /\ (o.kind = "result" /\ GenerationFailed(o.value)
                     /\ ~TimedOut(k)) =>
                     task_results[k].status = "failed"

\* the last event of the call is act returning a 'completed' result
CompletedLast ==
    /\ rtrace # <<>>
    /\ rtrace[Len(rtrace)].ev \in {"generated", "llm_error"}

\* C18: when an attempt returns status 'completed' the call returns that
\* result with every field unchanged, plus attempts = the number of act
\* calls made (1 for the first attempt) and retry_used = (attempts > 1), and
\* it is the last thing the call does: no attempt and no wait follows.
C18_SuccessReturnsResultAndCount ==
    /\ (InRetry /\ CompletedAttempts # {}) =>
          /\ pc = "done"
          /\ CompletedAttempts = {Len(rtrace)}
          /\ LET result == ActResult(args.agent_type, args.task,
                                     rtrace[Len(rtrace)].ev)
             IN  /\ \A f \in DOMAIN result : ret[f] = result[f]
                 /\ DOMAIN ret = DOMAIN result \cup {"attempts", "retry_used"}
                 /\ ret.status = "completed"
                 /\ ret.attempts = ActCalls
                 /\ ret.attempts = rtrace[Len(rtrace)].n
                 /\ ret.retry_used = (ret.attempts > 1)
    /\ (RetryReturned /\ ret.status = "completed") => CompletedLast

\* the second attempt returned 'completed' after a first one that did not
C18_Witness ==
    /\ RetryReturned
    /\ CompletedLast
    /\ ret.attempts = 2
    /\ ret.retry_used

\* the exception the last attempt raised, None if it raised none
LastAttemptError ==
    IF rtrace # <<>> /\ \E i \in EventsOf({"raises"}) :
                           rtrace[i].n = args.max_retries
    THEN TraceError
    ELSE None

\* C19: when no attempt returns status 'completed' the call returns status
\* 'failed' with agent = agent_type, the task, attempts = max_retries, and
\* error and response ('Failed after N attempts: <error>') naming the
\* exception the last attempt raised.
C19_FailureNamesLastException ==
    (RetryReturned /\ CompletedAttempts = {} /\ args.max_retries > 0) =>
        /\ ret.status = "failed"
        /\ ret.agent = args.agent_type
        /\ ret.task = args.task
        /\ ret.attempts = args.max_retries
        /\ LastAttemptError # None
        /\ ret.error = Str(LastAttemptError)
        /\ ret.response = "Failed after " \o ToString(args.max_retries)
                          \o " attempts: " \o Str(LastAttemptError)

-----------------------------------------------------------------------------
(* Claims about MLflowManager *)

\* C20: log_agent_metrics, log_model_performance and log_training_run never
\* raise, and when they return no run is open: no run is active and every
\* run they started is terminated in the store, on the success path and on
\* every error path.
C20_NeverRaisesNoRunOpen ==
    ml_calls > 0 =>
        /\ ml_result.kind = "return"
        /\ ml_active = <<>>
        /\ \A id \in DOMAIN ml_runs : ml_runs[id].status = "FINISHED"

-----------------------------------------------------------------------------
(* Claims about SafetyFilter *)

\* a result of check_content_safety agrees with its own list of issues
SafetyConsistent(result) ==
    LET issues == Len(result.issues_found)
    IN  /\ result.safety_score =
              (IF 100 - 20 * issues > 0 THEN 100 - 20 * issues ELSE 0)
        /\ result.safety_score \in 0..100
        /\ result.is_safe <=> issues = 0
        /\ result.is_safe <=> result.safety_score = 100
        /\ result.action = "allow" <=> result.is_safe

\* the validation issues of a text, from the text itself
HasValidationIssue(text, input_type) ==
    \/ TextLen(Strip(text)) = 0
    \/ TextLen(text) > max_input_length
    \/ input_type = "url" /\ ~UrlMatches(text)

ValidationConsistent(text, input_type, result) ==
    /\ result.safety_check = check_content_safety(text)
    /\ result.validation_issues # <<>> <=> HasValidationIssue(text, input_type)
    /\ result.is_valid <=>
          result.safety_check.is_safe /\ ~HasValidationIssue(text, input_type)
    /\ result.recommendation = "accept" <=> result.is_valid
    /\ result.recommendation \in {"accept", "reject"}

CheckedText(method) ==
    /\ safety_calls > 0
    /\ safety_call.method = method
    /\ IsText(safety_call.text)
    /\ safety_out.kind = "return"

\* C21: for every text the results of SafetyFilter are consistent:
\* safety_score = max(0, 100 - 20 * number of issues) and lies in 0..100;
\* is_safe iff no issue iff safety_score = 100; action is "allow" iff
\* is_safe; validate_input returns is_valid iff the text is safe and has no
\* validation issue (empty, too long, bad URL), and recommendation is
\* "accept" iff is_valid.
C21_SafetyResultsConsistent ==
    /\ CheckedText("check_content_safety") =>
          SafetyConsistent(safety_out.value)
    /\ (safety_calls > 0 /\ safety_call.method = "validate_input"
        /\ IsText(safety_call.text)) =>
          /\ safety_out.kind = "return"
          /\ SafetyConsistent(safety_out.value.safety_check)
          /\ ValidationConsistent(safety_call.text, safety_call.input_type,
                                  safety_out.value)

\* validate_input has returned for a text with more than five issues, where
\* the score is cut off at 0, after an earlier call accepted its text
C21_Witness ==
    /\ CheckedText("validate_input")
    /\ safety_calls = 2
    /\ Len(safety_out.value.safety_check.issues_found) > 5
    /\ safety_out.value.safety_check.safety_score = 0
    /\ safety_out.value.recommendation = "reject"

====
